---------------------------- MODULE Spec2Model ----------------------------
(* A model of dashboard.py: the memoized load of the sales file, the       *)
(* sidebar filters, and the Model Analysis tab (feature building, 80/20    *)
(* split, OLS fit, on-demand prediction, evaluation).  One dashboard       *)
(* refresh is one run of create_dashboard; pc is its position.  Reals are  *)
(* fixed-point integers in units of 1/Scale.                               *)
EXTENDS Integers, Sequences, FiniteSets, TLC

(***************************************************************************)
(* Bounds                                                                  *)
(***************************************************************************)
\* largest number of transactions the sales file holds
MaxRows == 6

\* fixed-point unit: the real r is held as the integer r * Scale
Scale == 100

\* not-a-number and infinity of the floating-point arithmetic
NaN == 0 - 2^30
Inf == 2^30

(***************************************************************************)
(* The sales file: row i of the CSV after parsing.  Date is YYYYMMDD.      *)
(***************************************************************************)
FILE_PATH == "Coffe_sales.csv"

RowDate   == <<20240301, 20240914, 20241220, 20250105, 20250610, 20251002, 20251115, 20260210>>
RowDow    == <<4, 5, 4, 6, 1, 3, 5, 1>>
RowHour   == <<10, 15, 19, 8, 13, 21, 9, 16>>
RowCoffee == <<"Latte", "Americano", "Latte", "Cortado", "Americano", "Cortado", "Latte", "Americano">>
RowCash   == <<"card", "cash", "card", "cash", "card", "card", "cash", "card">>
RowTime   == <<"Morning", "Afternoon", "Night", "Morning", "Afternoon", "Night", "Morning", "Afternoon">>
RowMoney  == <<4, 3, 4, 0, 3, 5, 4, 3>>

\* sorted(...) of the values a column can hold (string order)
SortedCoffees == <<"Americano", "Cortado", "Latte">>
SortedCash    == <<"card", "cash">>
SortedTimes   == <<"Afternoon", "Morning", "Night">>
SortedSeasons == <<"Autumn", "Fall", "Spring", "Summer", "Winter">>

Range(s) == {s[i] : i \in DOMAIN s}

(***************************************************************************)
(* load_data                                                               *)
(***************************************************************************)
\* get_season with September counted as a summer month
get_season_SeptemberSummer(month) ==
    IF month \in {12, 1, 2} THEN "Winter"
    ELSE IF month \in {3, 4, 5} THEN "Spring"
    ELSE IF month \in {6, 7, 8, 9} THEN "Summer"
    ELSE "Fall"

\* get_season, nested in load_data
get_season(month) ==
    IF month \in {12, 1, 2} THEN "Winter"
    ELSE IF month \in {3, 4, 5} THEN "Spring"
    ELSE IF month \in {6, 7, 8} THEN "Summer"
    ELSE "Fall"

\* the rows of df that load_data builds from the CSV rows
LoadedRows ==
    [i \in DOMAIN RowDate |->
        [Date        |-> RowDate[i],
         coffee_name |-> RowCoffee[i],
         cash_type   |-> RowCash[i],
         Time_of_Day |-> RowTime[i],
         money       |-> RowMoney[i],
         hour        |-> RowHour[i],
         month       |-> (RowDate[i] \div 100) % 100,
         day_of_week |-> RowDow[i],
         year        |-> RowDate[i] \div 10000,
         season      |-> get_season((RowDate[i] \div 100) % 100),
         is_weekend  |-> RowDow[i] \in {5, 6}]]

\* row i of the table load_data returns
LoadedRow(i) == LoadedRows[i]

\* a table, held as the set of its row numbers, and Python's None
Table(rows) == [kind |-> "table", rows |-> rows]
None == [kind |-> "None", rows |-> {}]
\* no value: the call raised instead of returning
Raised == [kind |-> "raised", rows |-> {}]

\* the rows of a file that are tried with an unparseable Date or Time text: none,
\* the first row of two or more, or the second row of four or more, so that the
\* rows left are never none and, when two or more, differ in hour, weekday and month
FlawChoices(k) == IF k < 2 THEN {{}} ELSE IF k < 4 THEN {{}, {1}} ELSE {{}, {1}, {2}}

\* df.dropna(subset=['datetime']) after the coercing parse of Date + ' ' + Time:
\* the rows whose Time text does not parse are NaT and go
DropNaT(rows, badTime) == rows \ badTime

\* the body of load_data: None when the file is missing; pd.to_datetime(df['Date'])
\* raises on a Date text it cannot parse and only FileNotFoundError is caught;
\* otherwise the table of the rows whose datetime parsed
load_data_body(exists, k, badDate, badTime) ==
    IF ~exists THEN None
    ELSE IF badDate # {} THEN Raised
    ELSE Table(DropNaT(1..k, badTime))


(***************************************************************************)
(* Generic helpers                                                         *)
(***************************************************************************)
Min(S) == CHOOSE x \in S : \A y \in S : x <= y
Max(S) == CHOOSE x \in S : \A y \in S : y <= x

RECURSIVE SortedSeq(_)
\* sorted(S) for a set of integers
SortedSeq(S) == IF S = {} THEN <<>> ELSE <<Min(S)>> \o SortedSeq(S \ {Min(S)})

RECURSIVE Sum(_, _)
\* the sum of f[i] over i in S
Sum(f, S) ==
    IF S = {} THEN 0
    ELSE LET i == CHOOSE j \in S : TRUE IN f[i] + Sum(f, S \ {i})

RECURSIVE IsqrtIn(_, _, _)
\* the largest r in lo..hi with r * r <= v, given lo * lo <= v
IsqrtIn(v, lo, hi) ==
    IF lo >= hi THEN lo
    ELSE LET mid == (lo + hi + 1) \div 2
         IN IF mid * mid <= v THEN IsqrtIn(v, mid, hi) ELSE IsqrtIn(v, lo, mid - 1)

\* the integer square root of v >= 0
Isqrt(v) == IsqrtIn(v, 0, 40000)

\* numpy's sqrt on the fixed-point value v
Sqrt(v) == IF v = NaN THEN NaN ELSE IF v = Inf THEN Inf ELSE Isqrt(v * Scale)

\* fixed-point product and the float quotient, with its 0/0 and x/0
Mul(a, b) == IF a = NaN \/ b = NaN THEN NaN ELSE (a * b) \div Scale
Div(a, b) ==
    IF a = NaN \/ b = NaN THEN NaN
    ELSE IF b = 0 THEN (IF a = 0 THEN NaN ELSE IF a > 0 THEN Inf ELSE 0 - Inf)
    ELSE IF a = Inf \/ a = 0 - Inf THEN (IF b > 0 THEN a ELSE 0 - a)
    ELSE (a * Scale) \div b

(***************************************************************************)
(* Feature builder (Model Analysis tab)                                    *)
(***************************************************************************)
\* .astype(str) of a year, and the f-string rendering of input_year
Str(y) ==
    CASE y = 2024 -> "2024" [] y = 2025 -> "2025" [] y = 2026 -> "2026"
      [] OTHER -> "other"

SortedYears == <<"2024", "2025", "2026", "other">>

\* the month -> Season map of the model tab
SeasonMap(month) ==
    CASE month \in {12, 1, 2} -> "Winter"
      [] month \in {3, 4, 5} -> "Spring"
      [] month \in {6, 7, 8} -> "Summer"
      [] month \in {9, 10, 11} -> "Autumn"

\* the rows of df_model built from the rows of df
ModelRows ==
    [i \in DOMAIN RowDate |->
        [coffee_name |-> LoadedRow(i).coffee_name,
         cash_type   |-> LoadedRow(i).cash_type,
         Time_of_Day |-> LoadedRow(i).Time_of_Day,
         money       |-> LoadedRow(i).money,
         hour        |-> LoadedRow(i).hour,
         month       |-> LoadedRow(i).month,
         day_of_week |-> LoadedRow(i).day_of_week,
         year        |-> LoadedRow(i).year,
         season      |-> LoadedRow(i).season,
         Year        |-> Str(RowDate[i] \div 10000),
         Month       |-> (RowDate[i] \div 100) % 100,
         Season      |-> SeasonMap((RowDate[i] \div 100) % 100)]]

\* row i of df_model
ModelRow(i) == ModelRows[i]

\* categorical_cols with the payment type among the encoded fields
categorical_cols_WithPayment == <<"coffee_name", "cash_type", "Time_of_Day", "Year", "Season">>

categorical_cols == <<"coffee_name", "Time_of_Day", "Year", "Season">>
numerical_cols == <<"hour", "day_of_week", "month">>

\* the values a categorical column can hold, in sorted order
SortedLevels(col) ==
    CASE col = "coffee_name" -> SortedCoffees
      [] col = "Time_of_Day" -> SortedTimes
      [] col = "cash_type" -> SortedCash
      [] col = "Year" -> SortedYears
      [] col = "Season" -> SortedSeasons

\* a column name: 'const', a numeric column, or the indicator f'{col}_{level}'
Col(name, level) == <<name, level>>
ConstCol == Col("const", "")

\* the levels of col present in rows, sorted
LevelsIn(col, rows) ==
    SelectSeq(SortedLevels(col), LAMBDA v : \E i \in rows : ModelRow(i)[col] = v)

\* DummiesOf with drop_first=False: the first level keeps its column
DummiesOf_KeepFirst(col, rows) ==
    LET lv == LevelsIn(col, rows)
    IN [j \in 1..Len(lv) |-> Col(col, lv[j])]

\* pd.get_dummies(..., drop_first=True): the indicator columns of one field
DummiesOf(col, rows) ==
    LET lv == LevelsIn(col, rows)
    IN [j \in 1..(Len(lv) - 1) |-> Col(col, lv[j + 1])]

RECURSIVE Concat(_)
\* the concatenation of a sequence of sequences
Concat(ss) == IF ss = <<>> THEN <<>> ELSE Head(ss) \o Concat(Tail(ss))

\* column.mean() over rows, NaN on an empty column
Mean(col, rows) ==
    IF rows = {} THEN NaN
    ELSE Sum([i \in rows |-> ModelRow(i)[col] * Scale], rows) \div Cardinality(rows)

\* column.std() over rows (ddof = 1), NaN on fewer than two rows
Std(col, rows) ==
    IF Cardinality(rows) < 2 THEN NaN
    ELSE LET m == Mean(col, rows)
             sq == [i \in rows |-> (ModelRow(i)[col] * Scale - m) * (ModelRow(i)[col] * Scale - m)]
         IN Isqrt(Sum(sq, rows) \div (Cardinality(rows) - 1))

\* df_model[numerical_cols].mean() and .std(), computed once per table
ColumnStats ==
    [rows \in SUBSET (1..MaxRows) |->
        [col \in Range(numerical_cols) |->
            [mean |-> Mean(col, rows), std |-> Std(col, rows)]]]

\* (x - mean) / std on the raw value x
Standardize(x, mean_val, std_val) ==
    IF mean_val = NaN THEN NaN ELSE Div(x * Scale - mean_val, std_val)

\* the population whose mean and std standardize the numeric columns
StatRows(rows) == rows

\* the cell of X_final at row i, column c, for the table with these rows
XCell(i, c, rows) ==
    IF c = ConstCol THEN Scale
    ELSE IF c[2] = "" THEN
        Standardize(ModelRow(i)[c[1]], ColumnStats[StatRows(rows)][c[1]].mean,
                    ColumnStats[StatRows(rows)][c[1]].std)
    ELSE IF ModelRow(i)[c[1]] = c[2] THEN Scale ELSE 0

\* X_combined's columns before the all-zero columns are dropped
CombinedColumns(rows) ==
    [j \in 1..Len(numerical_cols) |-> Col(numerical_cols[j], "")]
    \o Concat([j \in 1..Len(categorical_cols) |-> DummiesOf(categorical_cols[j], rows)])

\* the columns of X_final: const, then the columns with a nonzero cell
FinalColumns(rows) ==
    <<ConstCol>> \o
    SelectSeq(CombinedColumns(rows), LAMBDA c : \E i \in rows : XCell(i, c, rows) # 0)

\* np.log1p on a whole-number amount, from ln(1 + m) in thousandths
Log1p(m) ==
    (<<0, 693, 1099, 1386, 1609, 1792, 1946, 2079, 2197>>[m + 1] * Scale) \div 1000

(***************************************************************************)
(* Train/test split: numpy's global Mersenne Twister                       *)
(***************************************************************************)
SEED == 42
\* the generator as the process starts: seeded from the OS, held as the stream of seed 0
OsSeeded == [seed |-> 0, pos |-> 0]

\* the low three bits of the first 32 outputs of MT19937 seeded with 42 and 0
MT42 == <<6, 3, 4, 6, 2, 7, 4, 4, 6, 1, 2, 6, 2, 2, 7, 4,
          3, 7, 7, 2, 5, 4, 1, 7, 3, 5, 5, 1, 7, 3, 4, 0>>
MT0  == <<4, 7, 5, 0, 3, 3, 3, 7, 1, 3, 5, 2, 4, 7, 6, 0,
          0, 4, 2, 1, 6, 7, 7, 6, 0, 1, 5, 1, 5, 0, 1, 4>>

\* the generator's output number pos (from 0), low three bits
Word(g) == (IF g.seed = SEED THEN MT42 ELSE MT0)[(g.pos % 32) + 1]

\* Seeded without the reseeding: the generator carries on
Seeded_NoReseed(g, s) == g

\* np.random.seed(s)
Seeded(g, s) == [seed |-> s, pos |-> 0]

\* the smallest 2^b - 1 that is >= max
MaskOf(max) == IF max <= 1 THEN 1 ELSE IF max <= 3 THEN 3 ELSE 7

RECURSIVE Interval(_, _)
\* rk_interval: a draw in 0..max by masked rejection; the draw and the generator after it
Interval(max, g) ==
    LET v == Word(g) % (MaskOf(max) + 1)
        g2 == [g EXCEPT !.pos = @ + 1]
    IN IF v <= max THEN [value |-> v, rng |-> g2] ELSE Interval(max, g2)

RECURSIVE Shuffle(_, _, _)
\* the shuffle loop, for i down to 1: swap a[i] and a[j], j drawn in 0..i (0-based)
Shuffle(a, i, g) ==
    IF i < 1 THEN [idx |-> a, rng |-> g]
    ELSE LET d == Interval(i, g)
             j == d.value
             b == [a EXCEPT ![i + 1] = a[j + 1], ![j + 1] = a[i + 1]]
         IN Shuffle(b, i - 1, d.rng)

\* np.random.permutation(n): the shuffled 0..n-1 and the generator after it
Permutation(n, g) == Shuffle([p \in 1..n |-> p - 1], n - 1, g)

\* TrainSize rounding up
TrainSize_Ceiling(n) == (8 * n + 9) \div 10

\* int(0.8 * n)
TrainSize(n) == (8 * n) \div 10

\* idx[:train_size]
TrainIdx(idx, train_size) == SubSeq(idx, 1, train_size)

\* TestIdx starting one position late
TestIdx_OffByOne(idx, train_size) == SubSeq(idx, train_size + 2, Len(idx))

\* idx[train_size:]
TestIdx(idx, train_size) == SubSeq(idx, train_size + 1, Len(idx))

\* the row of df_model at position p (from 0): .iloc[p]
RowAt(rows, p) == SortedSeq(rows)[p + 1]

(***************************************************************************)
(* Predictor                                                               *)
(***************************************************************************)
\* the prediction-time season of a month
PredictSeason(input_month) ==
    IF input_month \in {12, 1, 2} THEN "Winter"
    ELSE IF input_month \in {3, 4, 5} THEN "Spring"
    ELSE IF input_month \in {6, 7, 8} THEN "Summer"
    ELSE "Fall"

\* ZeroRow without the zero initialisation: the cells stay NaN
ZeroRow_Uninitialized(columns) ==
    [cols |-> columns, vals |-> [c \in Range(columns) |-> NaN], touched |-> {}]

\* pd.DataFrame(columns=x_train.columns, index=[0]) with row 0 set to 0
ZeroRow(columns) ==
    [cols |-> columns, vals |-> [c \in Range(columns) |-> 0], touched |-> {}]

\* input_df.loc[0, col] = v: the cell is set, and the column is added when absent
SetLoc(d, col, v) ==
    IF col \in Range(d.cols)
    THEN [d EXCEPT !.vals[col] = v, !.touched = @ \cup {col}]
    ELSE [cols |-> Append(d.cols, col),
          vals |-> [c \in Range(d.cols) \cup {col} |-> IF c = col THEN v ELSE d.vals[c]],
          touched |-> d.touched \cup {col}]

\* SetIfPresent without the membership test
SetIfPresent_Unguarded(d, col, v) == SetLoc(d, col, v)

\* if col in input_df.columns: input_df[col] = v
SetIfPresent(d, col, v) ==
    IF col \in Range(d.cols) THEN SetLoc(d, col, v) ELSE d

\* the three standardized numeric cells, each set if col is in x_train.columns
SetNumeric(d, col, x, rows, columns) ==
    IF Col(col, "") \in Range(columns)
    THEN SetLoc(d, Col(col, ""),
                Standardize(x, ColumnStats[rows][col].mean, ColumnStats[rows][col].std))
    ELSE d

\* input_df[x_train.columns]
Reorder(d, columns) ==
    [cols |-> columns, vals |-> [c \in Range(columns) |-> d.vals[c]], touched |-> d.touched]

\* the prediction row built from the widgets' values
BuildInput(in, rows, columns) ==
    LET d0 == SetLoc(ZeroRow(columns), ConstCol, Scale)
        d1 == SetIfPresent(d0, Col("coffee_name", in.coffee), Scale)
        d2 == SetIfPresent(d1, Col("Time_of_Day", in.time_of_day), Scale)
        d3 == SetIfPresent(d2, Col("cash_type", in.cash_type), Scale)
        d4 == SetIfPresent(d3, Col("Season", PredictSeason(in.month)), Scale)
        d5 == SetIfPresent(d4, Col("Year", Str(in.year)), Scale)
        d6 == SetNumeric(d5, "hour", in.hour, rows, columns)
        d7 == SetNumeric(d6, "month", in.month, rows, columns)
        d8 == SetNumeric(d7, "day_of_week", in.day_of_week, rows, columns)
    IN Reorder(d8, columns)

\* model.predict on one row: the dot product with the coefficients
Dot(vals, params, columns) ==
    LET term == [j \in 1..Len(columns) |-> Mul(vals[columns[j]], params[columns[j]])]
    IN IF \E j \in 1..Len(columns) : term[j] = NaN THEN NaN
       ELSE Sum(term, 1..Len(columns))

RECURSIVE ExpPos(_)
\* e^x for x >= 0; Inf past the largest finite value
ExpPos(x) ==
    IF x > 9 * Scale THEN Inf
    ELSE IF x >= Scale THEN (ExpPos(x - Scale) * 2718) \div 1000
    ELSE Scale + x + Mul(x, x) \div 2 + Mul(Mul(x, x), x) \div 6
         + Mul(Mul(Mul(x, x), x), x) \div 24

\* e^x
Exp(x) ==
    IF x = NaN THEN NaN
    ELSE IF x >= 0 THEN ExpPos(x)
    ELSE IF ExpPos(0 - x) = Inf THEN 0
    ELSE (Scale * Scale) \div ExpPos(0 - x)

\* Expm1 as np.exp
Expm1_AsExp(x) == Exp(x)

\* np.expm1
Expm1(x) == IF Exp(x) = Inf \/ Exp(x) = NaN THEN Exp(x) ELSE Exp(x) - Scale

(***************************************************************************)
(* Evaluator                                                               *)
(***************************************************************************)
\* y = np.log1p(money) of the row at position p
YAt(rows, p) == Log1p(ModelRow(RowAt(rows, p)).money)

\* model.predict(x_test) at position p
YPredAt(rows, p, params, columns) ==
    Dot([c \in Range(columns) |-> XCell(RowAt(rows, p), c, rows)], params, columns)

\* R2 floored at 0
R2_Clamped(ssr, sst) ==
    LET q == Div(ssr, sst)
    IN IF q = NaN THEN NaN ELSE IF q = Inf THEN 0 ELSE Max({0, Scale - q})

\* r2 = 1 - (ssr / sst)
R2(ssr, sst) ==
    LET q == Div(ssr, sst)
    IN IF q = NaN THEN NaN ELSE IF q = Inf THEN 0 - Inf ELSE Scale - q

\* ssr, sst, r2 and rmse over the held-out rows
Evaluate(rows, test_idx, params, columns) ==
    LET T == 1..Len(test_idx)
        y == [t \in T |-> YAt(rows, test_idx[t])]
        yhat == [t \in T |-> YPredAt(rows, test_idx[t], params, columns)]
        ybar == IF T = {} THEN NaN ELSE Sum(y, T) \div Len(test_idx)
        ssr == Sum([t \in T |-> Mul(y[t] - yhat[t], y[t] - yhat[t])], T)
        sst == IF T = {} THEN 0 ELSE Sum([t \in T |-> Mul(y[t] - ybar, y[t] - ybar)], T)
        mse == IF T = {} THEN NaN ELSE ssr \div Len(test_idx)
    IN [computed |-> TRUE, ssr |-> ssr, sst |-> sst, r2 |-> R2(ssr, sst),
        rmse |-> Sqrt(mse)]

(***************************************************************************)
(* State                                                                   *)
(***************************************************************************)
VARIABLES
    fileExists,        \* whether Coffe_sales.csv existed when the refresh began
    fileRows,          \* the number of rows it held
    fileBadDate,       \* its rows whose Date text does not parse
    fileBadTime,       \* its rows whose Time text does not parse
    file_read,         \* the process has read the file: load_data's body has run
    cache,             \* st.cache_data's entry for load_data(FILE_PATH)
    rng,               \* numpy's global generator
    pc,                \* the position of create_dashboard
    steps,             \* the pipeline steps the current refresh has run
    outcome,           \* how the refresh ended
    error_shown,       \* st.error was rendered by load_data
    df,                \* what load_data returned
    df_filtered,       \* the rows that pass the sidebar filters
    selected_coffees,  \* the coffee-name multiselect
    df_model,          \* the rows of the model tab's table
    columns,           \* x_train.columns
    train_idx,         \* positions of the training rows
    test_idx,          \* positions of the held-out rows
    model,             \* the fitted OLS model
    pred,              \* the prediction of this refresh
    metrics            \* the evaluation of this refresh

vars == <<fileExists, fileRows, fileBadDate, fileBadTime, file_read,
          cache, rng, pc, steps, outcome, error_shown, df,
          df_filtered, selected_coffees, df_model, columns, train_idx, test_idx,
          model, pred, metrics>>

Miss == [kind |-> "miss", rows |-> {}]
NoModel == [fitted |-> FALSE, params |-> <<>>]
NoPrediction ==
    [made |-> FALSE, input |-> <<>>, input_df |-> ZeroRow(<<>>),
     log_prediction |-> 0, prediction |-> 0]
NoMetrics == [computed |-> FALSE, ssr |-> 0, sst |-> 0, r2 |-> 0, rmse |-> 0]

Init ==
    /\ fileExists = FALSE
    /\ fileRows = 0
    /\ fileBadDate = {}
    /\ fileBadTime = {}
    /\ file_read = FALSE
    /\ cache = Miss
    /\ rng = OsSeeded
    /\ pc = "idle"
    /\ steps = <<>>
    /\ outcome = "none"
    /\ error_shown = FALSE
    /\ df = None
    /\ df_filtered = {}
    /\ selected_coffees = {}
    /\ df_model = {}
    /\ columns = <<>>
    /\ train_idx = <<>>
    /\ test_idx = <<>>
    /\ model = NoModel
    /\ pred = NoPrediction
    /\ metrics = NoMetrics

(***************************************************************************)
(* create_dashboard, one action per stretch of one refresh                 *)
(***************************************************************************)
\* the @st.cache_data wrapper of load_data: the stored value on a hit, else the body's
load_data(entry, exists, k, badDate, badTime) ==
    IF entry # Miss THEN entry ELSE load_data_body(exists, k, badDate, badTime)

\* the fresh locals of a run of create_dashboard
FreshRun ==
    /\ df_filtered' = {}
    /\ selected_coffees' = {}
    /\ df_model' = {}
    /\ columns' = <<>>
    /\ train_idx' = <<>>
    /\ test_idx' = <<>>
    /\ model' = NoModel
    /\ pred' = NoPrediction
    /\ metrics' = NoMetrics

\* Loaded without the early return on None
Loaded_NoReturn(result) ==
    /\ cache' = IF result = Raised THEN cache ELSE result
    /\ df' = result
    /\ error_shown' = (result = None)
    /\ pc' = "loaded"
    /\ outcome' = "running"

\* Loaded with None left out of the cache
Loaded_NoneNotStored(result) ==
    /\ cache' = IF result.kind = "table" THEN result ELSE cache
    /\ df' = result
    /\ error_shown' = (result = None)
    /\ pc' = IF result.kind = "table" THEN "loaded" ELSE "idle"
    /\ outcome' = CASE result = None -> "file_missing"
                    [] result = Raised -> "load_failed"
                    [] OTHER -> "running"

\* df = load_data("Coffe_sales.csv"); if df is None: return.  A value that is returned
\* is stored by st.cache_data, None included; an exception stores nothing, leaves df
\* without a value and ends the run
Loaded(result) ==
    /\ cache' = IF result = Raised THEN cache ELSE result
    /\ df' = result
    /\ error_shown' = (result = None)
    /\ pc' = IF result.kind = "table" THEN "loaded" ELSE "idle"
    /\ outcome' = CASE result = None -> "file_missing"
                    [] result = Raised -> "load_failed"
                    [] OTHER -> "running"

\* a refresh begins and load_data runs its body: the file is as the refresh finds
\* it, missing or present with k rows, some of them with a flawed Date or Time
LoadFile(exists, k, badDate, badTime) ==
    /\ pc = "idle"
    /\ cache = Miss
    /\ file_read' = TRUE
    /\ fileExists' = exists
    /\ fileRows' = IF exists THEN k ELSE 0
    /\ fileBadDate' = IF exists THEN badDate ELSE {}
    /\ fileBadTime' = IF exists THEN badTime ELSE {}
    /\ Loaded(load_data(cache, exists, k, badDate, badTime))
    /\ steps' = <<"load">>
    /\ FreshRun
    /\ UNCHANGED rng

\* a refresh begins and load_data answers from the cache: the file is not looked at
LoadCached ==
    /\ pc = "idle"
    /\ cache # Miss
    /\ Loaded(load_data(cache, fileExists, fileRows, fileBadDate, fileBadTime))
    /\ steps' = <<"load">>
    /\ FreshRun
    /\ UNCHANGED <<fileExists, fileRows, fileBadDate, fileBadTime, file_read, rng>>

\* the dates the date_input is tried with: the day before the data, its first and last day
DateChoices(rows) ==
    LET dates == {LoadedRow(i).Date : i \in rows}
    IN {Min(dates) - 1, Min(dates), Max(dates)}

\* the rows of df within the date range
DateFiltered(rows, start_date, end_date) ==
    {i \in rows : LoadedRow(i).Date >= start_date /\ LoadedRow(i).Date <= end_date}

\* IsinFiltered with an empty coffee selection taken as no restriction
IsinFiltered_EmptyMeansAll(rows, coffees, cash_types, seasons, times) ==
    {i \in rows : /\ (coffees = {} \/ LoadedRow(i).coffee_name \in coffees)
                  /\ LoadedRow(i).cash_type \in cash_types
                  /\ LoadedRow(i).season \in seasons
                  /\ LoadedRow(i).Time_of_Day \in times}

\* the four .isin filters
IsinFiltered(rows, coffees, cash_types, seasons, times) ==
    {i \in rows : /\ LoadedRow(i).coffee_name \in coffees
                  /\ LoadedRow(i).cash_type \in cash_types
                  /\ LoadedRow(i).season \in seasons
                  /\ LoadedRow(i).Time_of_Day \in times}

all_seasons == {"Winter", "Spring", "Summer", "Fall"}

\* the selections a multiselect is tried with: its default (every option) and none
AllOrNone(options) == {options, {}}

\* the season selections tried: all, none, and Fall alone
SeasonChoices == {all_seasons, {}, {"Fall"}}

\* len(date_range) != 2: st.sidebar.warning and st.stop()
FilterStop ==
    /\ pc = "loaded"
    /\ pc' = "idle"
    /\ outcome' = "stopped"
    /\ UNCHANGED <<fileExists, fileRows, fileBadDate, fileBadTime, file_read,
                   cache, rng, steps, error_shown, df, df_filtered,
                   selected_coffees, df_model, columns, train_idx, test_idx, model,
                   pred, metrics>>

\* the sidebar filters, then the empty check; tabs 1 to 5 render when rows remain
Filter ==
    /\ pc = "loaded"
    /\ \E start_date \in DateChoices(df.rows), end_date \in DateChoices(df.rows) :
         /\ start_date <= end_date
         /\ LET by_date == DateFiltered(df.rows, start_date, end_date)
                all_coffees == {LoadedRow(i).coffee_name : i \in by_date}
                all_cash_types == {LoadedRow(i).cash_type : i \in by_date}
                all_times == {LoadedRow(i).Time_of_Day : i \in by_date}
            IN \E coffees \in SUBSET all_coffees, cash_types \in AllOrNone(all_cash_types),
                  seasons \in SeasonChoices, times \in AllOrNone(all_times) :
                 LET kept == IsinFiltered(by_date, coffees, cash_types, seasons, times)
                 IN /\ df_filtered' = kept
                    /\ selected_coffees' = coffees
                    /\ pc' = IF kept = {} THEN "idle" ELSE "filtered"
                    /\ outcome' = IF kept = {} THEN "no_data" ELSE "running"
                    /\ steps' = IF kept = {} THEN Append(steps, "filter")
                                 ELSE steps \o <<"filter", "charts">>
    /\ UNCHANGED <<fileExists, fileRows, fileBadDate, fileBadTime, file_read,
                   cache, rng, error_shown, df, df_model, columns,
                   train_idx, test_idx, model, pred, metrics>>

\* df_model = df.copy(): the table the model tab works on
ModelSource(loaded, filtered) == loaded.rows

\* the data prep and the split of the model tab
Prepare(rows, g) ==
    LET n == Cardinality(rows)
        train_size == TrainSize(n)
        p == Permutation(n, Seeded(g, SEED))
    IN [columns |-> FinalColumns(rows),
        train_idx |-> TrainIdx(p.idx, train_size),
        test_idx |-> TestIdx(p.idx, train_size),
        rng |-> p.rng]

\* the coefficient values a fit is tried with
CoefValues == {0 - Scale \div 2, 0, Scale}

\* sm.OLS(y_train, x_train).fit() on the sales file of k rows: the minimum-norm
\* least-squares coefficients over x_train.columns, in thousandths, for k = 1..8
LeastSquaresMilli ==
    <<<<>>,
      <<555, 392, 392, 392, 0, 0, 0>>,
      <<821, -208, 529, -138, 242, 242, 0, 242, 0>>,
      <<1093, 293, -166, 406, -119, 313, 194, 0, -119, 313, -119>>,
      <<1155, 94, 97, 214, 0, 179, 247, -68, 198, 247, 198, -68>>,
      <<1070, 91, 334, 153, 248, 178, 272, 153, 248, 272, 0, -94>>,
      <<1239, 154, 137, 52, 81, 150, 192, 39, 257, 192, 176, -42>>,
      <<1254, 152, 134, -6, 113, 83, 182, 14, 232, 174, 182, 118, 74>>>>

\* whether the table is the sales file's first k rows, whose fit is tabulated
Tabulated(rows, cols) ==
    /\ rows = 1..Cardinality(rows)
    /\ Cardinality(rows) \in DOMAIN LeastSquaresMilli
    /\ Len(LeastSquaresMilli[Cardinality(rows)]) = Len(cols)

\* the fitted coefficients of the sales file, by column
LeastSquares(rows, cols) ==
    [c \in Range(cols) |->
        LET j == CHOOSE i \in 1..Len(cols) : cols[i] = c
        IN (LeastSquaresMilli[Cardinality(rows)][j] * Scale) \div 1000]

\* other coefficient vectors, as other amounts in the file would give: one value for
\* the intercept, one for the numeric columns, its negation for the indicators
OtherFits(cols) ==
    {[c \in Range(cols) |-> IF c = ConstCol THEN a ELSE IF c[2] = "" THEN b ELSE 0 - b] :
        a \in CoefValues, b \in CoefValues}

\* sm.OLS(y_train, x_train).fit().params: the fit of the file, and the other vectors
OLSFits(rows, cols) ==
    (IF Tabulated(rows, cols) THEN {LeastSquares(rows, cols)} ELSE {}) \cup OtherFits(cols)

\* TrainEmpty testing for a negative length
TrainEmpty_NegativeLength(tr) == Len(tr) < 0

\* x_train.empty or y_train.empty
TrainEmpty(tr) == tr = <<>>

\* the warning branch: not enough data to train
NotEnoughData ==
    /\ pc = "filtered"
    /\ LET rows == ModelSource(df, df_filtered)
           prep == Prepare(rows, rng)
       IN /\ TrainEmpty(prep.train_idx)
          /\ df_model' = rows
          /\ columns' = prep.columns
          /\ train_idx' = prep.train_idx
          /\ test_idx' = prep.test_idx
          /\ rng' = prep.rng
    /\ steps' = steps \o <<"engineer", "split">>
    /\ outcome' = "not_enough_data"
    /\ pc' = "idle"
    /\ UNCHANGED <<fileExists, fileRows, fileBadDate, fileBadTime, file_read,
                   cache, error_shown, df, df_filtered,
                   selected_coffees, model, pred, metrics>>

\* the else branch up to the fit
FitModel ==
    /\ pc = "filtered"
    /\ LET rows == ModelSource(df, df_filtered)
           prep == Prepare(rows, rng)
       IN /\ ~TrainEmpty(prep.train_idx)
          /\ df_model' = rows
          /\ columns' = prep.columns
          /\ train_idx' = prep.train_idx
          /\ test_idx' = prep.test_idx
          /\ rng' = prep.rng
          /\ \E params \in OLSFits(rows, prep.columns) :
               model' = [fitted |-> TRUE, params |-> params]
    /\ steps' = steps \o <<"engineer", "split", "fit">>
    /\ pc' = "trained"
    /\ UNCHANGED <<fileExists, fileRows, fileBadDate, fileBadTime, file_read,
                   cache, outcome, error_shown, df, df_filtered,
                   selected_coffees, pred, metrics>>

\* the slider positions tried
HourChoices == {0, 23}

\* the widgets' values: payment type and hour chosen freely, the coffee, time of day,
\* year, month and weekday those of one row of df_model
Inputs(rows) ==
    {[coffee |-> ModelRow(r).coffee_name, cash_type |-> ModelRow(p).cash_type,
      time_of_day |-> ModelRow(r).Time_of_Day, year |-> ModelRow(r).year,
      month |-> ModelRow(r).month, day_of_week |-> ModelRow(r).day_of_week,
      hour |-> h] : p \in rows, r \in rows, h \in HourChoices}

\* the body of `if st.button("Predict Sales")`
Predict(in, rows, cols, params) ==
    LET input_df == BuildInput(in, rows, cols)
        log_prediction == Dot(input_df.vals, params, input_df.cols)
    IN [made |-> TRUE, input |-> in, input_df |-> input_df,
        log_prediction |-> log_prediction, prediction |-> Expm1(log_prediction)]

\* the button is not pressed: the evaluation alone
EvaluateOnly ==
    /\ pc = "trained"
    /\ metrics' = Evaluate(df_model, test_idx, model.params, columns)
    /\ steps' = Append(steps, "evaluate")
    /\ outcome' = "evaluated"
    /\ pc' = "idle"
    /\ UNCHANGED <<fileExists, fileRows, fileBadDate, fileBadTime, file_read,
                   cache, rng, error_shown, df, df_filtered,
                   selected_coffees, df_model, columns, train_idx, test_idx, model, pred>>

\* PredictAndEvaluate with the run ending after the prediction
PredictAndEvaluate_NoEvaluation ==
    /\ pc = "trained"
    /\ metrics' = NoMetrics
    /\ \E in \in Inputs(df_model) : pred' = Predict(in, df_model, columns, model.params)
    /\ steps' = Append(steps, "predict")
    /\ outcome' = "evaluated"
    /\ pc' = "idle"
    /\ UNCHANGED <<fileExists, fileRows, fileBadDate, fileBadTime, file_read,
                   cache, rng, error_shown, df, df_filtered,
                   selected_coffees, df_model, columns, train_idx, test_idx, model>>

\* the button is pressed: the prediction, then the evaluation
PredictAndEvaluate ==
    /\ pc = "trained"
    /\ metrics' = Evaluate(df_model, test_idx, model.params, columns)
    /\ \E in \in Inputs(df_model) : pred' = Predict(in, df_model, columns, model.params)
    /\ steps' = steps \o <<"predict", "evaluate">>
    /\ outcome' = "evaluated"
    /\ pc' = "idle"
    /\ UNCHANGED <<fileExists, fileRows, fileBadDate, fileBadTime, file_read,
                   cache, rng, error_shown, df, df_filtered,
                   selected_coffees, df_model, columns, train_idx, test_idx, model>>

\* the Streamlit process is restarted: the cache and the generator start afresh
RestartProcess ==
    /\ pc = "idle"
    /\ outcome # "none"
    /\ cache' = Miss
    /\ rng' = OsSeeded
    /\ fileExists' = FALSE
    /\ fileRows' = 0
    /\ fileBadDate' = {}
    /\ fileBadTime' = {}
    /\ file_read' = FALSE
    /\ outcome' = "none"
    /\ error_shown' = FALSE
    /\ df' = None
    /\ steps' = <<>>
    /\ FreshRun
    /\ UNCHANGED pc

Next ==
    \/ \E exists \in BOOLEAN, k \in 1..MaxRows :
         \E badDate \in FlawChoices(k), badTime \in FlawChoices(k) :
            badDate \cap badTime = {} /\ LoadFile(exists, k, badDate, badTime)
    \/ LoadCached
    \/ FilterStop
    \/ Filter
    \/ NotEnoughData
    \/ FitModel
    \/ EvaluateOnly
    \/ PredictAndEvaluate
    \/ RestartProcess

Spec == Init /\ [][Next]_vars

(***************************************************************************)
(* Properties                                                              *)
(***************************************************************************)
Ran(step) == step \in Range(steps)

\* nothing past the load has run or left a result in this refresh
NothingComputed ==
    /\ df_filtered = {} /\ df_model = {} /\ columns = <<>>
    /\ train_idx = <<>> /\ test_idx = <<>>
    /\ ~model.fitted /\ ~pred.made /\ ~metrics.computed

\* C1: when load_data reads a missing file it reports the error and returns None, and
\* the refresh ends right after the load: no filter, feature, fit, prediction or
\* evaluation step runs, and the script is back waiting for the next refresh.
C1_MissingFileHalts ==
    /\ (cache # Miss /\ ~fileExists) => df = None
    /\ df = None /\ Ran("load") =>
         /\ error_shown
         /\ outcome = "file_missing"
         /\ steps = <<"load">>
         /\ NothingComputed
         /\ pc = "idle"

C1_Witness ==
    /\ ~fileExists /\ cache = None /\ df = None
    /\ outcome = "file_missing" /\ error_shown /\ steps = <<"load">>

\* C2: when the filters leave no row (an empty coffee selection included) the refresh
\* ends in the no-data state after the filter step, and no chart, fit, prediction or
\* evaluation runs in it.
C2_EmptyFilterNoData ==
    /\ (Ran("filter") /\ df_filtered = {}) => outcome = "no_data"
    /\ (Ran("filter") /\ selected_coffees = {}) => outcome = "no_data"
    /\ outcome = "no_data" =>
         /\ steps = <<"load", "filter">>
         /\ df_filtered = {} /\ df_model = {} /\ columns = <<>>
         /\ ~model.fitted /\ ~pred.made /\ ~metrics.computed
         /\ pc = "idle"

C2_Witness ==
    /\ outcome = "no_data" /\ selected_coffees = {} /\ df.rows # {}
    /\ steps = <<"load", "filter">>

C4_ModelOnFilteredRows ==
    model.fitted => df_model = df_filtered

\* np.random.seed(42); np.random.permutation(n), as numpy returns it for n = 0..8
NumpyPermutation42 ==
    <<<<>>, <<0>>, <<1, 0>>, <<0, 1, 2>>, <<1, 3, 0, 2>>, <<1, 4, 2, 0, 3>>,
      <<0, 1, 5, 2, 4, 3>>, <<0, 1, 5, 2, 4, 3, 6>>, <<1, 5, 0, 7, 2, 4, 3, 6>>>>

\* C5: in every refresh, whatever ran before it in the process, the split of n rows
\* is the one fixed permutation that seed 42 gives for n.
C5_SplitDeterministic ==
    Ran("split") =>
        train_idx \o test_idx = NumpyPermutation42[Cardinality(df_model) + 1]

C5_Witness ==
    /\ Ran("split") /\ Cardinality(df_model) = 5
    /\ train_idx = <<1, 4, 2, 0>> /\ test_idx = <<3>>

\* C6: the split partitions the n row positions: training and test positions are
\* disjoint, together they are 0..n-1 with none repeated, and the training part has
\* floor(0.8 n) of them.
C6_SplitPartitions ==
    Ran("split") =>
        LET n == Cardinality(df_model)
        IN /\ Range(train_idx) \cap Range(test_idx) = {}
           /\ Range(train_idx) \cup Range(test_idx) = 0..(n - 1)
           /\ Len(train_idx) + Len(test_idx) = n
           /\ Len(train_idx) = (4 * n) \div 5
           /\ Len(test_idx) = n - (4 * n) \div 5

C6_Witness ==
    /\ Ran("split") /\ Cardinality(df_model) = 6
    /\ Len(train_idx) = 4 /\ Len(test_idx) = 2

\* the categorical fields of a prediction input and the level each one names
InputLevel(in, field) ==
    CASE field = "coffee_name" -> in.coffee
      [] field = "Time_of_Day" -> in.time_of_day
      [] field = "cash_type" -> in.cash_type
      [] field = "Season" -> PredictSeason(in.month)
      [] field = "Year" -> Str(in.year)

InputFields == {"coffee_name", "Time_of_Day", "cash_type", "Season", "Year"}

\* C7: the prediction row has the trained columns in the trained order, and building
\* it touches no column outside them.
C7_PredictionRowSchema ==
    pred.made =>
        /\ pred.input_df.cols = columns
        /\ DOMAIN pred.input_df.vals = Range(columns)
        /\ pred.input_df.touched \subseteq Range(columns)

C7_Witness ==
    /\ pred.made /\ Len(columns) > 4
    /\ Col("coffee_name", pred.input.coffee) \notin Range(columns)
    /\ ConstCol \in pred.input_df.touched

\* C8: a categorical input with no indicator column leaves every indicator of its
\* field at 0, and the prediction still yields an amount.
C8_UnseenCategoryIgnored ==
    pred.made =>
        /\ \A f \in InputFields :
             Col(f, InputLevel(pred.input, f)) \notin Range(columns) =>
                 \A c \in Range(columns) : c[1] = f => pred.input_df.vals[c] = 0
        /\ pred.prediction # NaN
        /\ Ran("predict")

C8_Witness ==
    /\ pred.made
    /\ Col("coffee_name", pred.input.coffee) \notin Range(columns)
    /\ \E c \in Range(columns) : c[1] = "coffee_name"
    /\ Col("Season", PredictSeason(pred.input.month)) \notin Range(columns)
    /\ \E c \in Range(columns) : c[1] = "Season"

\* the model holds the least-squares fit of the sales file
FittedOnFile ==
    /\ model.fitted /\ Tabulated(df_model, columns)
    /\ model.params = LeastSquares(df_model, columns)

C10_OneSeasonLabelSet ==
    /\ Ran("engineer") => \A i \in df_model : ModelRow(i).season = ModelRow(i).Season
    /\ pred.made =>
         /\ get_season(pred.input.month) = SeasonMap(pred.input.month)
         /\ PredictSeason(pred.input.month) = SeasonMap(pred.input.month)


\* the twelve months and the four groups of three the seasons are to be
Months == 1..12
SeasonGroups == {{12, 1, 2}, {3, 4, 5}, {6, 7, 8}, {9, 10, 11}}
SameGroup(m1, m2) == \E g \in SeasonGroups : m1 \in g /\ m2 \in g

\* each derivation gives every month a label
SeasonsTotal ==
    \A m \in Months :
       /\ get_season(m) \in {"Winter", "Spring", "Summer", "Fall"}
       /\ SeasonMap(m) \in {"Winter", "Spring", "Summer", "Autumn"}
       /\ PredictSeason(m) \in {"Winter", "Spring", "Summer", "Fall"}

\* each derivation gives two months one label exactly when they share a group
SeasonsGroupAlike ==
    \A m1, m2 \in Months :
       /\ SameGroup(m1, m2) <=> (get_season(m1) = get_season(m2))
       /\ SameGroup(m1, m2) <=> (SeasonMap(m1) = SeasonMap(m2))
       /\ SameGroup(m1, m2) <=> (PredictSeason(m1) = PredictSeason(m2))

\* C11: each of the three season derivations gives every month 1..12 a label, gives
\* two months the same label exactly when they are in the same group of {12,1,2},
\* {3,4,5}, {6,7,8}, {9,10,11}, and the season held by every row and used by every
\* prediction is the derivation's value at that row's or input's month.
C11_SeasonTotalPure ==
    /\ SeasonsTotal
    /\ SeasonsGroupAlike
    /\ Ran("engineer") =>
         \A i, j \in df_model :
            /\ ModelRow(i).month \in Months /\ ModelRow(i).Month = ModelRow(i).month
            /\ SameGroup(ModelRow(i).month, ModelRow(j).month) <=>
                   (ModelRow(i).season = ModelRow(j).season)
            /\ SameGroup(ModelRow(i).month, ModelRow(j).month) <=>
                   (ModelRow(i).Season = ModelRow(j).Season)
    /\ pred.made =>
         \A i \in df_model :
            SameGroup(ModelRow(i).month, pred.input.month) <=>
                (PredictSeason(ModelRow(i).month) = InputLevel(pred.input, "Season"))

C11_Witness ==
    /\ pred.made /\ pred.input.month \in {9, 10, 11}
    /\ \E i, j \in df_model :
          /\ i # j /\ SameGroup(ModelRow(i).month, ModelRow(j).month)
          /\ ModelRow(i).month # ModelRow(j).month
          /\ ModelRow(i).Season = "Autumn" /\ ModelRow(i).season = "Fall"


\* the rows of the training partition
TrainRows == {RowAt(df_model, train_idx[t]) : t \in 1..Len(train_idx)}

\* the numeric fields of a prediction input
InputNumber(in, field) ==
    CASE field = "hour" -> in.hour
      [] field = "month" -> in.month
      [] field = "day_of_week" -> in.day_of_week

\* the numeric columns of the trained schema
NumericColumns == {c \in Range(columns) : c # ConstCol /\ c[2] = ""}

\* C12: the numeric cells of the feature matrix, and the numeric cells of the
\* prediction row, are standardized with the mean and standard deviation of the
\* rows of the training partition.
C12_TrainingPartitionStatistics ==
    Ran("fit") =>
        /\ \A c \in NumericColumns : \A i \in df_model :
             XCell(i, c, df_model) =
                 Standardize(ModelRow(i)[c[1]], Mean(c[1], TrainRows), Std(c[1], TrainRows))
        /\ pred.made =>
             \A c \in NumericColumns :
                pred.input_df.vals[c] =
                    Standardize(InputNumber(pred.input, c[1]),
                                Mean(c[1], TrainRows), Std(c[1], TrainRows))


\* C13: when the file is there, load_data returns a table that holds exactly the rows
\* whose Date and Time both parse: a row with an unparseable Date or Time is dropped
\* and never aborts the load.
C13_UnparseableRowsDropped ==
    (Ran("load") /\ fileExists) =>
        /\ df.kind = "table"
        /\ df.rows = {i \in 1..fileRows : i \notin fileBadDate /\ i \notin fileBadTime}

\* a step in which load_data's body runs and reads the file
ReadsFile ==
    \E exists \in BOOLEAN, k \in 1..MaxRows :
       \E badDate \in FlawChoices(k), badTime \in FlawChoices(k) :
          badDate \cap badTime = {} /\ LoadFile(exists, k, badDate, badTime)

TestRSS ==
    Sum([t \in 1..Len(test_idx) |->
            Mul(YAt(df_model, test_idx[t]) - YPredAt(df_model, test_idx[t], model.params, columns),
                YAt(df_model, test_idx[t]) - YPredAt(df_model, test_idx[t], model.params, columns))],
        1..Len(test_idx))
TestMean == Sum([t \in 1..Len(test_idx) |-> YAt(df_model, test_idx[t])], 1..Len(test_idx))
                \div Len(test_idx)
TestTSS ==
    Sum([t \in 1..Len(test_idx) |->
            Mul(YAt(df_model, test_idx[t]) - TestMean, YAt(df_model, test_idx[t]) - TestMean)],
        1..Len(test_idx))

\* C14: the reported R2 is 1 - RSS/TSS over the held-out rows, with nothing put in
\* its place: it is negative whenever RSS > TSS (minus infinity when TSS is 0).
C14_R2Unclamped ==
    metrics.computed =>
        /\ metrics.ssr = TestRSS /\ metrics.sst = TestTSS
        /\ metrics.sst > 0 => metrics.r2 = Scale - (metrics.ssr * Scale) \div metrics.sst
        /\ (metrics.sst = 0 /\ metrics.ssr > 0) => metrics.r2 = 0 - Inf
        /\ metrics.ssr > metrics.sst => metrics.r2 < 0

C14_Witness ==
    /\ metrics.computed /\ FittedOnFile /\ Len(test_idx) >= 2
    /\ metrics.sst > 0 /\ metrics.ssr > metrics.sst /\ metrics.r2 < 0


\* the order of the steps of one pass
PipelineOrder ==
    <<"load", "filter", "charts", "engineer", "split", "fit", "predict", "evaluate">>
StepPosition(step) == CHOOSE j \in 1..Len(PipelineOrder) : PipelineOrder[j] = step

\* C16: the steps of a refresh are taken once each in the order load, filter,
\* engineer, split, fit, predict, evaluate; nothing is predicted or evaluated
\* without the fit; a prediction exists only when the predict step ran; and a
\* refresh that fitted the model ends with the evaluation, with or without a
\* prediction.
C16_LinearPass ==
    /\ Range(steps) \subseteq Range(PipelineOrder)
    /\ \A a, b \in 1..Len(steps) : a < b => StepPosition(steps[a]) < StepPosition(steps[b])
    /\ model.fitted <=> Ran("fit")
    /\ pred.made <=> Ran("predict")
    /\ metrics.computed <=> Ran("evaluate")
    /\ (Ran("predict") \/ Ran("evaluate")) => (Ran("fit") /\ model.fitted)
    /\ Ran("fit") => (Ran("load") /\ Ran("filter") /\ Ran("engineer") /\ Ran("split"))
    /\ (pc = "idle" /\ Ran("fit")) => (Ran("evaluate") /\ metrics.computed)
    /\ pc = "trained" => (Ran("fit") /\ ~Ran("predict") /\ ~Ran("evaluate"))

C16_Witness ==
    /\ pc = "idle" /\ model.fitted /\ ~pred.made /\ metrics.computed
    /\ steps = <<"load", "filter", "charts", "engineer", "split", "fit", "evaluate">>

\* for each row count, the held-out part has a row and the training part has none
\* exactly for a single row
SplitSizes ==
    \A n \in 1..(MaxRows + 2) :
       /\ n - TrainSize(n) >= 1
       /\ (TrainSize(n) = 0) <=> (n <= 1)

\* C17: for every n >= 1 the test partition has at least one row and the training
\* partition is empty exactly when n <= 1, so a fitted model is always evaluated over
\* at least one held-out row.
C17_TestPartitionNonEmpty ==
    /\ SplitSizes
    /\ Ran("split") =>
         /\ Cardinality(df_model) >= 1
         /\ Len(test_idx) >= 1
         /\ (train_idx = <<>>) <=> (Cardinality(df_model) <= 1)
    /\ model.fitted => test_idx # <<>>
    /\ metrics.computed => (Len(test_idx) >= 1 /\ metrics.rmse # NaN /\ metrics.ssr # NaN)

C17_Witness ==
    /\ metrics.computed /\ model.fitted
    /\ Cardinality(df_model) = 2 /\ Len(train_idx) = 1 /\ Len(test_idx) = 1

\* C18: the payment type is not an encoded field, the trained schema has no
\* cash_type column, and the prediction input with any other payment type gives the
\* same prediction row and the same amount.
C18_PaymentTypeIgnored ==
    /\ "cash_type" \notin Range(categorical_cols)
    /\ Ran("engineer") => \A c \in Range(columns) : c[1] # "cash_type"
    /\ pred.made =>
         \A ct \in Range(SortedCash) :
            LET other == Predict([pred.input EXCEPT !.cash_type = ct],
                                 df_model, columns, model.params)
            IN /\ other.input_df = pred.input_df
               /\ other.log_prediction = pred.log_prediction
               /\ other.prediction = pred.prediction

C18_Witness ==
    /\ pred.made /\ pred.input.cash_type = "cash"
    /\ \E i \in df_model :
          /\ ModelRow(i).cash_type = "card"
          /\ ModelRow(i).coffee_name = pred.input.coffee
          /\ ModelRow(i).month = pred.input.month
    /\ pred.prediction # 0

\* the Season indicator columns of the trained schema
SeasonColumns == {c \in Range(columns) : c[1] = "Season"}

\* C19: the prediction row's Season indicators equal those of every training row of
\* the selected month, the selected month is one the data holds, and for months 9,
\* 10 and 11 neither Season_Fall nor Season_Autumn is a column, so all are 0.
C19_SeasonEncodingAgrees ==
    pred.made =>
        /\ \E i \in df_model : ModelRow(i).month = pred.input.month
        /\ \A i \in df_model :
             ModelRow(i).month = pred.input.month =>
                 \A c \in SeasonColumns : pred.input_df.vals[c] = XCell(i, c, df_model)
        /\ pred.input.month \in {9, 10, 11} =>
             /\ Col("Season", "Fall") \notin Range(columns)
             /\ Col("Season", "Autumn") \notin Range(columns)
             /\ \A c \in SeasonColumns : pred.input_df.vals[c] = 0

C19_Witness ==
    /\ pred.made /\ pred.input.month \in {9, 10, 11}
    /\ Col("Season", "Spring") \in SeasonColumns
    /\ Col("Season", "Winter") \in SeasonColumns

=============================================================================
